---- MODULE Spec2Model ----
(***************************************************************************)
(* Frame-synchronised telemetry and control pipeline of smm2-hooks.        *)
(*                                                                         *)
(* The host game re-enters the plugin on one thread through three          *)
(* trampolines:                                                            *)
(*   procFrame_                 (src/src/frame.cpp)        -> ProcFrame    *)
(*   PlayerObject_changeState   (src/src/state_logger.cpp,                 *)
(*                               src/src/status.cpp)  -> PlayerChangeState *)
(*   GetNpadStates              (src/src/tas.cpp)          -> NpadStates   *)
(*                                                                         *)
(* procFrame_ first runs the original simulation step and only then the    *)
(* per-frame callback and the increment.  State changes and input reads    *)
(* the game makes inside the original step run before any plugin state is  *)
(* touched by procFrame_, so they are the PlayerChangeState / NpadStates   *)
(* steps that precede the ProcFrame step of the same frame number.         *)
(*                                                                         *)
(* Of the Logger streams only states.csv (state_log) is carried as state;  *)
(* fields.csv, game_phase.csv and the trace logs are write-only sinks of   *)
(* the same Logger type that no modelled code reads back.  The merged      *)
(* input entry is handed back to the host and is not plugin state.         *)
(*                                                                         *)
(* Three history variables record what the code does not keep:             *)
(*   fresh     the Mode of a fresh classifier fed only the (old,new)       *)
(*             pairs seen so far;                                          *)
(*   observed  the last transition and the Mode before it (SpecObserved);  *)
(*   replay    per frame n, the Mode of a fresh classifier fed the pairs   *)
(*             stamped <= n (SpecStamped).                                 *)
(* Spec interleaves all three trampolines; SpecObserved and SpecStamped    *)
(* run the same hooks with the finer histories recorded.                   *)
(*                                                                         *)
(* SpecSnapshot (simulation steps and transitions) carries the rest of     *)
(* the status block, status_ext, and the histories cb, pubs, dropped and   *)
(* seen of the callback, the publish calls and the last transition.        *)
(* SpecInput (simulation steps and input reads) plays longer scripts and   *)
(* carries the histories pubs, tick_publishes, done_publishes and          *)
(* polled_frame.                                                           *)
(* SpecTas starts from tas.csv as found on the card (absent, header only,  *)
(* rows), reads input.bin by its length and records the entry handed back  *)
(* to the host (pad_real, pad_out) and the live polls (tick_live,          *)
(* done_live, live_polled, last_poll).                                     *)
(* SpecLogger runs one Logger stream (logger) under any sequence of write  *)
(* and flush calls, with the records in buffer[0, pos) and in the file     *)
(* kept as sequences, and the histories appended and lost of the records   *)
(* handed in and of those whose OpenFile failed.                           *)
(* The Logger actions record the call just made and the stream before it  *)
(* in last_op; writef is the vsnprintf wrapper of write.                   *)
(* SpecMode (simulation steps and transitions among a few player states)   *)
(* records in last_row the row the transition hook appended to states.csv. *)
(* SpecCadence runs past the first flush period of state_logger::per_frame *)
(* and records in pending the frame of the oldest row still buffered.      *)
(* SpecReentry follows nn::fs::WriteFile calls with the write_hook of      *)
(* course_data.cpp installed.  The file holds two definitions of the       *)
(* hook, course_data picks one; the stream is s_log, and in_flight is the  *)
(* stack of WriteFile calls that have not returned, the ones issued by     *)
(* s_log.flush() included.                                                 *)
(***************************************************************************)
EXTENDS Integers, Sequences, FiniteSets, TLC

\* ---------------------------------------------------------------- bounds
MaxFrame == 2      \* procFrame_ is intercepted while s_frame <= MaxFrame
MaxEvents == 3     \* player state changes intercepted in one run
MaxPolls == 1      \* GetNpadStates calls intercepted in one run
MaxScriptPolls == 4  \* GetNpadStates calls intercepted in one SpecInput run
MaxSeen == 2       \* player state changes in one SpecSnapshot run
MaxTasPolls == 3   \* GetNpadStates calls intercepted in one SpecTas run
MaxCadenceFrame == 301  \* procFrame_ is intercepted while s_frame <= it in SpecCadence
MaxAppends == 3    \* records handed to one Logger stream in one run

\* ----------------------------------------------------- program constants
BUFFER_SIZE == 8192
TMP_SIZE == 256
S_COUNT_MAX == 50
SIZE_FILTER == 1024
STATE_HEADER_LEN == 62
FLUSH_PERIOD == 300
LIVE_PERIOD == 2
MAX_KEYFRAMES == 2048
LIVE_BUTTONS_LEN == 8
LIVE_SAMPLE_LEN == 16

Walk == 1
Damage == 9
DamageEnd == 10
StartFall == 16
SwimIdle == 43
GoalPole == 122
GoalBackJump == 124

MODE_UNKNOWN == 0   \* the value s_mode is constructed with
MODE_EDITOR == 0
MODE_PLAYING == 1
MODE_GOAL == 2
MODE_DEAD == 3

NO_PHASE == -1
PHASE_EDITOR == 3
PHASE_COURSEBOT == 4

\* death and goal states of is_death_state / is_goal_state
Death113 == 113

\* the grace window of the entity tracker, in frames
STALE_WINDOW == 1

\* ------------------------------------------------------------ input sets
\* state ids the game passes to / holds in PlayerObject::changeState
StateIds == {Walk, Damage, DamageEnd, StartFall, SwimIdle, GoalPole, GoalBackJump}
\* the states of the transitions of SpecMode: one matched by no rule as
\* new state, a death state without a rule, the reset state, the goal state
ModeStates == {Walk, DamageEnd, StartFall, GoalPole}
\* the frames in which SpecCadence has transitions: the first two, and the
\* last two before and the first two after the second flush
CadenceEventFrames == {0, 1, 298, 299, 300, 301}
\* sizes of the nn::fs::WriteFile calls of the game and of the other
\* streams: a status block, a flush of more than 1 KB
HostSizes == {4, 2000}
\* PlayerObject addresses handed to the hook (0 is the null pointer)
PlayerRefs == {1, 2}
\* values read_phase() can return: -1 for a null pointer chain, or the phase
Phases == {NO_PHASE, PHASE_EDITOR}
\* lengths of one formatted states.csv record
StateRecLens == {40}
Modes == {MODE_EDITOR, MODE_PLAYING, MODE_GOAL, MODE_DEAD}

Keyframe(f, b, x, y) == [frame |-> f, buttons |-> b, stick_lx |-> x, stick_ly |-> y]
\* parsed contents of tas.csv; <<>> stands for "absent or without rows"
ScriptChoices == { <<>>, <<Keyframe(1, 0, 3, 0)>> }
LiveInput(b, x, y) == [buttons |-> b, stick_lx |-> x, stick_ly |-> y]
\* results of read_live_input: "fail" or the sample read from input.bin
LiveReads == { [ok |-> FALSE, inp |-> LiveInput(0, 0, 0)],
               [ok |-> TRUE, inp |-> LiveInput(2, 0, 5)] }
\* values a read of cur_state through s_player can return (any state: the
\* object may have been destroyed since the pointer was captured)
PlayerStateReads == {Walk, DamageEnd, GoalBackJump}
\* scripts played in SpecInput: keyframe frames strictly increasing
InputScripts ==
    { <<Keyframe(0, 0, 0, 0), Keyframe(1, 4, 0, 0), Keyframe(2, 5, 0, 0)>>,
      <<Keyframe(1, 2, 3, 0), Keyframe(3, 0, 0, 7)>>,
      <<Keyframe(2, 0, 3, 0)>> }
\* one data row of tas.csv: four fields, bad = the first field that is not a
\* number (0: every field is a number)
Row(f, b, x, y, bad) ==
    [frame |-> f, buttons |-> b, stick_lx |-> x, stick_ly |-> y, bad |-> bad]
TasFile(exists, rows) == [exists |-> exists, rows |-> rows]
\* tas.csv as found at startup: absent, a header without rows, two rows,
\* three rows the second of which does not parse
TasFiles ==
    { TasFile(FALSE, <<>>),
      TasFile(TRUE, <<>>),
      TasFile(TRUE, <<Row(1, 2, 3, 0, 0), Row(2, 5, 0, 0, 0)>>),
      TasFile(TRUE, <<Row(0, 4, 0, 0, 0), Row(7, 7, 7, 7, 1),
                      Row(2, 0, 0, 7, 0)>>) }
\* input.bin as found by one read_live_input: whether it opens, the bytes
\* read and the values they hold
LiveFile(opened, n, b, x, y) ==
    [opened |-> opened, bytes_read |-> n, buttons |-> b, stick_lx |-> x,
     stick_ly |-> y]
LiveFiles ==
    { LiveFile(FALSE, 0, 0, 0, 0),
      LiveFile(TRUE, 4, 1, 0, 0),
      LiveFile(TRUE, 8, 16384, 9, 9),
      LiveFile(TRUE, 16, 2, 0, 5) }
\* the entry the original GetNpadStates returned (buttons, left stick)
RealPad(b, x, y) == [buttons |-> b, sl_x |-> x, sl_y |-> y]
\* lengths handed to Logger::write: a short record, half the buffer, the
\* whole buffer
RecordLens == {100, 4096, 8192, 9000}

\* values vsnprintf returns in Logger::writef: an error, a record that fills
\* tmp, a record longer than tmp
FormattedLens == {-1, 255, 300}

RealPads == { RealPad(1, 500, 0), RealPad(0, 0, -3) }
\* "no transition observed yet"
NoEvent == [old |-> 0, new |-> 0, before |-> 0, seen |-> FALSE]

VARIABLES
    s_frame,            \* frame.cpp  s_frame
    s_mode,             \* status.cpp s_mode
    s_player,           \* status.cpp s_player
    tracked_player,     \* state_logger.cpp tracked_player
    s_last_phase,       \* game_phase s_last_phase
    state_log,          \* state_logger.cpp state_log (pos, file_pos)
    status_bin,         \* content of sd:/smm2-hooks/status.bin
    script,             \* tas.cpp script[0..script_len)
    script_idx,
    script_active,
    live_mode,
    cur,                \* tas.cpp cur_buttons, cur_lx, cur_ly
    s_input_poll_count,
    n_events,           \* number of intercepted player state changes
    fresh,              \* Mode of a fresh classifier fed the pairs seen
    replay,             \* replay[n]: Mode of a fresh classifier fed, in
                        \* order, the (old,new) pairs stamped <= n
    observed,           \* last (old,new) pair and the Mode before it
    status_ext,         \* status.bin: real_game_phase and the player fields
    cb,                 \* last s_cb call: its argument, frame::current()
    pubs,               \* frames of the blocks of the last two publish calls
    dropped,            \* frame of the last status::update call that
                        \* could not write (-1: none)
    seen,               \* last transition: reference, the reference held
                        \* before it, stamp, editor rule
    tick_publishes,     \* status writes attempted since the last step
    done_publishes,     \* status writes attempted in the last whole step
    polled_frame,       \* frame::current() at the last update_input
    tas_csv,            \* sd:/smm2-hooks/tas.csv as found at startup
    pad_real,           \* entry the original GetNpadStates returned last
    pad_out,            \* the same entry as handed back to the host
    tick_live,          \* read_live_input calls since the last step
    done_live,          \* read_live_input calls in the last whole step
    live_polled,        \* whether read_live_input was ever called
    last_poll,          \* last update_input: whether it polled, the file
                        \* it found, cur_* before it
    logger,             \* a Logger with what buffer[0, pos) and its file hold
    appended,           \* the records passed to Logger::write, in order
    lost,               \* ids of the records whose OpenFile failed
    last_op,            \* last call on the stream: its name, the Logger
                        \* before it, its length and OpenFile outcomes
    last_row,           \* the arguments of the last state_log.writef
    pending,            \* frame::current() at the oldest write to state_log
                        \* not flushed yet, -1 if there is none
    course_data,        \* course_data.cpp: which write_hook is built,
                        \* s_inited / s_log_init, s_count
    in_flight           \* the nn::fs::WriteFile calls of s_log.flush that
                        \* have not returned, outermost first

vars == <<s_frame, s_mode, s_player, tracked_player, s_last_phase, state_log,
          status_bin, script, script_idx, script_active, live_mode, cur,
          s_input_poll_count, n_events, fresh, replay, observed,
          status_ext, cb, pubs, dropped, seen,
          tick_publishes, done_publishes, polled_frame,
          tas_csv, pad_real, pad_out, tick_live, done_live, live_polled,
          last_poll, logger, appended, lost, last_op,
          last_row, pending, course_data, in_flight>>

\* histories of SpecSnapshot and of SpecInput
snapVars == <<status_ext, cb, pubs, dropped, seen>>
inputVars == <<tick_publishes, done_publishes, polled_frame>>
\* the startup file and the histories of SpecTas
padVars == <<tas_csv, pad_real, pad_out, tick_live, done_live, live_polled,
             last_poll>>

\* the stream and the histories of SpecLogger
logVars == <<logger, appended, lost, last_op>>
\* the histories of SpecMode and SpecCadence
rowVars == <<last_row, pending>>
\* the statics of course_data.cpp and its calls in progress
courseVars == <<course_data, in_flight>>
hookVars == <<s_frame, s_mode, s_player, tracked_player, s_last_phase,
              state_log, status_bin, script, script_idx, script_active,
              live_mode, cur, s_input_poll_count, n_events, fresh, replay,
              observed, status_ext, cb, pubs, dropped, seen,
              tick_publishes, done_publishes, polled_frame,
              tas_csv, pad_real, pad_out, tick_live, done_live, live_polled,
              last_poll>>

tasVars == <<script, script_idx, script_active, live_mode, cur,
             s_input_poll_count>>

\* ------------------------------------------------------------ frame.cpp
Inc32_twice(x) == x + 2

\* uint32_t increment.  The counters wrap at 2^32, which lies outside the
\* integers TLC can evaluate; every guard keeps them far below the wrap.
Inc32(x) == x + 1

CallbackArg_incremented(frame) == frame + 1

\* the argument of s_cb: the callback runs before s_frame++
CallbackArg(frame) == frame

\* frame::current()
current == s_frame

\* ------------------------------------------------------------- log.h
\* a flush that only writes a buffer that is at least half full
LogFlush_whenHalfFull(lg, openOk) ==
    IF ~lg.initialized \/ lg.pos * 2 < BUFFER_SIZE THEN lg
    ELSE [lg EXCEPT !.file_pos = IF openOk THEN @ + lg.pos ELSE @,
                    !.pos = 0]

\* Logger::flush
LogFlush(lg, openOk) ==
    IF ~lg.initialized \/ lg.pos = 0 THEN lg
    ELSE [lg EXCEPT !.file_pos = IF openOk THEN @ + lg.pos ELSE @,
                    !.pos = 0]

\* Logger::write
LogWrite(lg, len, openOk) ==
    IF ~lg.initialized THEN lg
    ELSE LET l1 == IF lg.pos + len >= BUFFER_SIZE THEN LogFlush(lg, openOk) ELSE lg
         IN IF len >= BUFFER_SIZE
            THEN [l1 EXCEPT !.file_pos = IF openOk THEN @ + len ELSE @]
            ELSE [l1 EXCEPT !.pos = @ + len]

\* ------------------------------------- log.h, with the bytes themselves
\* a record passed to Logger::write: the id tells the records apart, len is
\* its length in bytes; id 0 stands for bytes nobody wrote
Rec(id, len) == [id |-> id, len |-> len]

RECURSIVE Bytes(_)
Bytes(recs) ==
    IF recs = <<>> THEN 0 ELSE Head(recs).len + Bytes(Tail(recs))

\* the records of a file that lie wholly below offset off
RECURSIVE Below(_, _)
Below(file, off) ==
    IF file = <<>> \/ Head(file).len > off THEN <<>>
    ELSE <<Head(file)>> \o Below(Tail(file), off - Head(file).len)

\* the records of a file that lie wholly at or above offset off
RECURSIVE Above(_, _)
Above(file, off) ==
    IF file = <<>> \/ off <= 0 THEN file
    ELSE Above(Tail(file), off - Head(file).len)

\* nn::fs::SetFileSize(f, n)
SetFileSize(file, n) ==
    LET head == Below(file, n)
        gap == n - Bytes(head)
    IN head \o (IF gap > 0 THEN <<Rec(0, gap)>> ELSE <<>>)

\* nn::fs::WriteFile(f, off, ..) alone: the bytes behind the written range
\* stay
WriteAt(file, off, recs) ==
    LET head == Below(file, off)
        gap == off - Bytes(head)
    IN head \o (IF gap > 0 THEN <<Rec(0, gap)>> ELSE <<>>) \o recs
            \o Above(file, off + Bytes(recs))

\* nn::fs::SetFileSize(f, off + n) followed by nn::fs::WriteFile(f, off, ..)
WriteFile(file, off, recs) ==
    LET head == Below(file, off)
        gap == off - Bytes(head)
    IN head \o (IF gap > 0 THEN <<Rec(0, gap)>> ELSE <<>>) \o recs

\* flush that leaves the buffer as it is after writing it
flush_noReset(lg, openOk) ==
    IF ~lg.initialized \/ lg.pos = 0 THEN lg
    ELSE [lg EXCEPT !.file = IF openOk THEN WriteFile(@, lg.file_pos, lg.buffer)
                              ELSE @,
                    !.file_pos = IF openOk THEN @ + lg.pos ELSE @]

\* flush that keeps the buffer for a later attempt when the file did not open
flush_keepsOnFail(lg, openOk) ==
    IF ~lg.initialized \/ lg.pos = 0 \/ ~openOk THEN lg
    ELSE [lg EXCEPT !.file = WriteFile(@, lg.file_pos, lg.buffer),
                    !.file_pos = @ + lg.pos,
                    !.pos = 0,
                    !.buffer = <<>>]

\* flush that advances file_pos whether or not the file opened
flush_countsFailed(lg, openOk) ==
    IF ~lg.initialized \/ lg.pos = 0 THEN lg
    ELSE [lg EXCEPT !.file = IF openOk THEN WriteFile(@, lg.file_pos, lg.buffer)
                              ELSE @,
                    !.file_pos = @ + lg.pos,
                    !.pos = 0,
                    !.buffer = <<>>]

\* Logger::flush
flush(lg, openOk) ==
    IF ~lg.initialized \/ lg.pos = 0 THEN lg
    ELSE [lg EXCEPT !.file = IF openOk THEN WriteFile(@, lg.file_pos, lg.buffer)
                              ELSE @,
                    !.file_pos = IF openOk THEN @ + lg.pos ELSE @,
                    !.pos = 0,
                    !.buffer = <<>>]

\* write that flushes first only when the record does not fit at all
write_flushWhenOver(lg, rec, flushOk, openOk) ==
    IF ~lg.initialized THEN lg
    ELSE LET l1 == IF lg.pos + rec.len > BUFFER_SIZE
                   THEN flush(lg, flushOk) ELSE lg
         IN IF rec.len >= BUFFER_SIZE
            THEN IF openOk
                 THEN [l1 EXCEPT !.file = WriteFile(@, l1.file_pos, <<rec>>),
                                 !.file_pos = @ + rec.len]
                 ELSE l1
            ELSE [l1 EXCEPT !.buffer = Append(@, rec), !.pos = @ + rec.len]

\* write whose oversize path does not flush the buffer first
write_directFirst(lg, rec, flushOk, openOk) ==
    IF ~lg.initialized THEN lg
    ELSE IF rec.len >= BUFFER_SIZE
         THEN IF openOk
              THEN [lg EXCEPT !.file = WriteFile(@, lg.file_pos, <<rec>>),
                              !.file_pos = @ + rec.len]
              ELSE lg
         ELSE LET l1 == IF lg.pos + rec.len >= BUFFER_SIZE
                        THEN flush(lg, flushOk) ELSE lg
              IN [l1 EXCEPT !.buffer = Append(@, rec), !.pos = @ + rec.len]

\* Logger::write; flushOk is the outcome of the OpenFile in flush, openOk of
\* the one on the direct path
write(lg, rec, flushOk, openOk) ==
    IF ~lg.initialized THEN lg
    ELSE LET l1 == IF lg.pos + rec.len >= BUFFER_SIZE
                   THEN flush(lg, flushOk) ELSE lg
         IN IF rec.len >= BUFFER_SIZE
            THEN IF openOk
                 THEN [l1 EXCEPT !.file = WriteFile(@, l1.file_pos, <<rec>>),
                                 !.file_pos = @ + rec.len]
                 ELSE l1
            ELSE [l1 EXCEPT !.buffer = Append(@, rec), !.pos = @ + rec.len]

\* Logger::writef; n is what vsnprintf returned, the length the whole
\* record has, and the length handed to write
writef(lg, id, n, flushOk, openOk) ==
    IF n > 0 THEN write(lg, Rec(id, n), flushOk, openOk) ELSE lg

\* --------------------------------------------------------- course_data.cpp
\* the two write_hook definitions of course_data.cpp
FILTERED == 1
COUNTED == 2

\* a WriteFile call that has not returned: who issued it, its arguments, and
\* where the write_hook invocation it entered stands (at its start, in its
\* s_log.flush(), or at write_hook.orig)
Call(who, off, data, size, pc) ==
    [who |-> who, off |-> off, data |-> data, size |-> size, pc |-> pc]

\* Logger::init followed by the write of the header line
LoggerInit(build) ==
    write([pos |-> 0, file_pos |-> 0, initialized |-> TRUE,
           buffer |-> <<>>, file |-> <<>>],
          Rec(1, IF build = FILTERED THEN 24 ELSE 20), TRUE, TRUE)

\* the test in front of the logging part of write_hook
hook_logs(cd, size) ==
    IF cd.build = FILTERED THEN size > SIZE_FILTER ELSE cd.s_count < S_COUNT_MAX

\* the logging part of write_hook up to its s_log.flush(): init on first
\* use, the row, s_count
hook_append(cd, lg, size, id) ==
    LET l0 == IF cd.s_inited THEN lg ELSE LoggerInit(cd.build)
        row == IF cd.build = FILTERED THEN 25 ELSE 16
    IN IF cd.build = COUNTED /\ size < 4 THEN l0
       ELSE writef(l0, id, row, TRUE, TRUE)

\* ------------------------------------------------------- state_logger.cpp
\* reset rule applied only while in the editor
Classify_resetFromEditorOnly(mode, old_state, new_state) ==
    LET m1 == IF old_state = StartFall /\ mode = MODE_EDITOR THEN MODE_PLAYING ELSE mode
        m2 == IF new_state = GoalPole THEN MODE_GOAL ELSE m1
        m3 == IF new_state = Damage THEN MODE_DEAD ELSE m2
        m4 == IF (old_state = GoalBackJump \/ old_state = DamageEnd)
                 /\ new_state = SwimIdle THEN MODE_EDITOR ELSE m3
    IN m4

\* goal rule tested before the reset rule
Classify_goalBeforeReset(mode, old_state, new_state) ==
    LET m1 == IF new_state = GoalPole THEN MODE_GOAL ELSE mode
        m2 == IF old_state = StartFall THEN MODE_PLAYING ELSE m1
        m3 == IF new_state = Damage THEN MODE_DEAD ELSE m2
        m4 == IF (old_state = GoalBackJump \/ old_state = DamageEnd)
                 /\ new_state = SwimIdle THEN MODE_EDITOR ELSE m3
    IN m4

\* death rule keyed on the terminal death state 10 instead of 9
Classify_deathOnTerminal(mode, old_state, new_state) ==
    LET m1 == IF old_state = StartFall THEN MODE_PLAYING ELSE mode
        m2 == IF new_state = GoalPole THEN MODE_GOAL ELSE m1
        m3 == IF new_state = DamageEnd THEN MODE_DEAD ELSE m2
        m4 == IF (old_state = GoalBackJump \/ old_state = DamageEnd)
                 /\ new_state = SwimIdle THEN MODE_EDITOR ELSE m3
    IN m4

\* editor rule that forgets the death-terminal state
Classify_editorAfterGoalOnly(mode, old_state, new_state) ==
    LET m1 == IF old_state = StartFall THEN MODE_PLAYING ELSE mode
        m2 == IF new_state = GoalPole THEN MODE_GOAL ELSE m1
        m3 == IF new_state = Damage THEN MODE_DEAD ELSE m2
        m4 == IF old_state = GoalBackJump /\ new_state = SwimIdle
              THEN MODE_EDITOR ELSE m3
    IN m4

\* the rules as an if / else-if chain: the first match wins
Classify_firstMatch(mode, old_state, new_state) ==
    IF old_state = StartFall THEN MODE_PLAYING
    ELSE IF new_state = GoalPole THEN MODE_GOAL
    ELSE IF new_state = Damage THEN MODE_DEAD
    ELSE IF (old_state = GoalBackJump \/ old_state = DamageEnd)
            /\ new_state = SwimIdle THEN MODE_EDITOR
    ELSE mode

\* the condition of the editor rule
\* a fifth rule: entering Walk means playing
Classify_walkIsPlay(mode, old_state, new_state) ==
    LET m1 == IF old_state = StartFall THEN MODE_PLAYING ELSE mode
        m2 == IF new_state = GoalPole THEN MODE_GOAL ELSE m1
        m3 == IF new_state = Damage THEN MODE_DEAD ELSE m2
        m4 == IF (old_state = GoalBackJump \/ old_state = DamageEnd)
                 /\ new_state = SwimIdle THEN MODE_EDITOR ELSE m3
    IN IF new_state = Walk THEN MODE_PLAYING ELSE m4

\* the row stamped with the frame that follows
StateRow_nextFrame(frame, old_state, new_state, player) ==
    [frame |-> frame + 1, old_state |-> old_state, new_state |-> new_state,
     player |-> player]

\* the arguments of state_log.writef in playerChangeState_hook (the four
\* floats read from the player are left out)
StateRow(frame, old_state, new_state, player) ==
    [frame |-> frame, old_state |-> old_state, new_state |-> new_state,
     player |-> player]

EntersEditing(old_state, new_state) ==
    (old_state = GoalBackJump \/ old_state = DamageEnd) /\ new_state = SwimIdle

\* the four classifier rules of playerChangeState_hook, in source order;
\* each set_mode overwrites s_mode
Classify(mode, old_state, new_state) ==
    LET m1 == IF old_state = StartFall THEN MODE_PLAYING ELSE mode
        m2 == IF new_state = GoalPole THEN MODE_GOAL ELSE m1
        m3 == IF new_state = Damage THEN MODE_DEAD ELSE m2
        m4 == IF (old_state = GoalBackJump \/ old_state = DamageEnd)
                 /\ new_state = SwimIdle THEN MODE_EDITOR ELSE m3
    IN m4

\* ------------------------------------------------------------ status.cpp
\* has_player reported only while Playing, the player fields still read
StatusBlock_playingOnly(frame, src) ==
    [frame |-> frame,
     game_phase |-> s_mode,
     has_player |-> IF s_player # 0 /\ s_mode = MODE_PLAYING THEN 1 ELSE 0,
     src |-> src]

\* the StatusBlock status::update assembles (frame, game_phase, has_player;
\* the remaining fields are raw reads of host memory)
StatusBlock(frame, src) ==
    [frame |-> frame,
     game_phase |-> s_mode,
     has_player |-> IF s_player # 0 THEN 1 ELSE 0,
     src |-> src]

\* set_player / the capture of status.cpp's own hook
set_player_keepFirst(tracked, player) == IF tracked = 0 THEN player ELSE tracked

set_player(tracked, player) == player

is_death_state(state) == state \in {Damage, DamageEnd, Death113}

is_goal_state(state) == state \in {GoalPole, GoalBackJump}

\* the zeroed player fields of a block, after memset
NoPlayerFields ==
    [player_state |-> 0, is_dead |-> 0, is_goal |-> 0, ref |-> 0]

\* the player fields status::update reads through s_player (st is the value
\* found at cur_state; ref records the address the fields were read from)
PlayerFields(player, st) ==
    IF player # 0
    THEN [player_state |-> st,
          is_dead |-> IF is_death_state(st) THEN 1 ELSE 0,
          is_goal |-> IF is_goal_state(st) THEN 1 ELSE 0,
          ref |-> player]
    ELSE NoPlayerFields

\* real_game_phase and the player fields of the block
StatusExt(phase, st) ==
    [real_game_phase |-> phase, player |-> PlayerFields(s_player, st)]

\* update() queues a block it could not write and writes the oldest first
update_backlog(frame, openOk, src) ==
    IF openOk
    THEN IF status_bin.src = src /\ status_bin.frame + 1 < frame
         THEN [StatusBlock(frame, src) EXCEPT !.frame = status_bin.frame + 1]
         ELSE StatusBlock(frame, src)
    ELSE status_bin

\* status::update: the block replaces the file content when OpenFile succeeds
update(frame, openOk, src) ==
    IF openOk THEN StatusBlock(frame, src) ELSE status_bin

\* status::update_from_input_poll, the fallback publish of the input hook
update_from_input_poll(openOk) ==
    update(s_frame, openOk, "poll")

\* ------------------------------------------------------------- game_phase
phase_mode_editorOnPhase(mode, phase) ==
    IF phase = PHASE_EDITOR THEN MODE_EDITOR ELSE mode

phase_mode_resetOnNull(mode, phase) ==
    IF phase = NO_PHASE THEN MODE_EDITOR ELSE mode

\* game_phase::per_frame logs a phase change and leaves the Mode alone
phase_mode(mode, phase) == mode

\* game_phase::per_frame: s_last_phase after the read
game_phase_per_frame(phase) == phase

\* ---------------------------------------------------------------- tas.cpp
RECURSIVE BitOr(_, _)
BitOr(a, b) ==
    IF a = 0 THEN b
    ELSE IF b = 0 THEN a
    ELSE (IF (a % 2 = 1) \/ (b % 2 = 1) THEN 1 ELSE 0) + 2 * BitOr(a \div 2, b \div 2)

\* an if in place of the while: one keyframe consumed per update
AdvanceScript_oneStep(idx, c, f) ==
    IF idx < Len(script) /\ script[idx + 1].frame <= f
    THEN [idx |-> idx + 1,
          cur |-> [buttons |-> script[idx + 1].buttons,
                   stick_lx |-> script[idx + 1].stick_lx,
                   stick_ly |-> script[idx + 1].stick_ly]]
    ELSE [idx |-> idx, cur |-> c]

\* playback that starts over when the script is exhausted
AdvanceScript_loop(idx, c, f) ==
    LET r == AdvanceScript_oneStep(idx, c, f) IN
    IF r.idx >= Len(script) THEN [idx |-> 0, cur |-> r.cur] ELSE r

RECURSIVE AdvanceScript(_, _, _)
\* the while loop of update_input: consume keyframes with frame <= f
AdvanceScript(idx, c, f) ==
    IF idx < Len(script) /\ script[idx + 1].frame <= f
    THEN AdvanceScript(idx + 1,
                       [buttons |-> script[idx + 1].buttons,
                        stick_lx |-> script[idx + 1].stick_lx,
                        stick_ly |-> script[idx + 1].stick_ly], f)
    ELSE [idx |-> idx, cur |-> c]

\* the end-of-playback test without the buttons condition
script_finished_atEnd(idx, buttons) == idx >= Len(script)

\* the test that ends playback in update_input
script_finished(idx, buttons) == idx >= Len(script) /\ buttons = 0

\* the live poll made without testing live_mode
live_poll_due_anyMode(f) == f % LIVE_PERIOD = 0

\* the test that guards read_live_input in update_input
live_poll_due(f) == live_mode /\ f % LIVE_PERIOD = 0

\* a failed read hands back a zeroed sample
read_live_input_zeroOnFail(file) ==
    IF file.opened /\ file.bytes_read >= LIVE_BUTTONS_LEN
    THEN [ok |-> TRUE,
          inp |-> IF file.bytes_read >= LIVE_SAMPLE_LEN
                  THEN LiveInput(file.buttons, file.stick_lx, file.stick_ly)
                  ELSE LiveInput(file.buttons, 0, 0)]
    ELSE [ok |-> TRUE, inp |-> LiveInput(0, 0, 0)]

\* read_live_input: 8 bytes give the buttons, 16 the sticks as well
read_live_input(file) ==
    IF file.opened /\ file.bytes_read >= LIVE_BUTTONS_LEN
    THEN [ok |-> TRUE,
          inp |-> IF file.bytes_read >= LIVE_SAMPLE_LEN
                  THEN LiveInput(file.buttons, file.stick_lx, file.stick_ly)
                  ELSE LiveInput(file.buttons, 0, 0)]
    ELSE [ok |-> FALSE, inp |-> LiveInput(0, 0, 0)]

\* one row through strtoul / strtoull / strtol: a field that is not a number
\* yields 0 and leaves the read position on it, so every later field of the
\* row yields 0 too
ParseRow(row) ==
    LET upTo == IF row.bad = 0 THEN 5 ELSE row.bad IN
    Keyframe(IF 1 < upTo THEN row.frame ELSE 0,
             IF 2 < upTo THEN row.buttons ELSE 0,
             IF 3 < upTo THEN row.stick_lx ELSE 0,
             IF 4 < upTo THEN row.stick_ly ELSE 0)

\* load_script: every row after the header becomes a keyframe, up to
\* MAX_KEYFRAMES; the result is script_len > 0
load_script(file) ==
    IF ~file.exists THEN [ok |-> FALSE, script |-> <<>>]
    ELSE LET n == IF Len(file.rows) < MAX_KEYFRAMES THEN Len(file.rows)
                  ELSE MAX_KEYFRAMES
             loaded == [i \in 1..n |-> ParseRow(file.rows[i])]
         IN [ok |-> n > 0, script |-> loaded]

\* buttons assigned and the sticks always overridden
inject_buttons_overwrite(out, c) ==
    [buttons |-> c.buttons, sl_x |-> c.stick_lx, sl_y |-> c.stick_ly]

\* inject_buttons on one returned entry
inject_buttons(out, c) ==
    [buttons |-> BitOr(out.buttons, c.buttons),
     sl_x |-> IF c.stick_lx # 0 THEN c.stick_lx ELSE out.sl_x,
     sl_y |-> IF c.stick_ly # 0 THEN c.stick_ly ELSE out.sl_y]

\* ------------------------------------------------------------------ Init
\* state after hkMain: every init() has run, no hook has fired yet
InitHooks ==
    /\ s_frame = 0
    /\ s_mode = MODE_UNKNOWN
    /\ s_player = 0
    /\ tracked_player = 0
    /\ s_last_phase = NO_PHASE
    /\ state_log = [pos |-> STATE_HEADER_LEN, file_pos |-> 0, initialized |-> TRUE]
    /\ status_bin = [frame |-> 0, game_phase |-> 0, has_player |-> 0, src |-> "init"]
    /\ script_idx = 0
    /\ cur = LiveInput(0, 0, 0)
    /\ s_input_poll_count = 0
    /\ n_events = 0
    /\ fresh = MODE_UNKNOWN
    /\ replay = [n \in 0..MaxFrame |-> 0]
    /\ observed = NoEvent
    /\ status_ext = [real_game_phase |-> 0, player |-> NoPlayerFields]
    /\ cb = [arg |-> -1, current |-> -1]
    /\ pubs = [prev |-> -1, last |-> -1]
    /\ dropped = -1
    /\ seen = [ref |-> 0, prev |-> 0, frame |-> -1, editing |-> FALSE]
    /\ tick_publishes = 0
    /\ done_publishes = 0
    /\ polled_frame = -1
    /\ pad_real = RealPad(0, 0, 0)
    /\ pad_out = RealPad(0, 0, 0)
    /\ tick_live = 0
    /\ done_live = 0
    /\ live_polled = FALSE
    /\ last_poll = [made |-> FALSE, file |-> LiveFile(FALSE, 0, 0, 0, 0),
                    before |-> LiveInput(0, 0, 0)]
    \* Logger::init
    /\ logger = [pos |-> 0, file_pos |-> 0, initialized |-> TRUE,
                 buffer |-> <<>>, file |-> <<>>]
    /\ appended = <<>>
    /\ lost = {}
    /\ last_op = [op |-> "init", before |-> logger, len |-> 0,
                  flushOk |-> TRUE, openOk |-> TRUE]
    /\ last_row = [frame |-> -1, old_state |-> 0, new_state |-> 0, player |-> 0]
    /\ pending = -1
    /\ course_data = [build |-> 0, s_inited |-> FALSE, s_count |-> 0]
    /\ in_flight = <<>>

\* tas::init already run on one of the given parsed scripts
InitWith(scripts) ==
    /\ InitHooks
    /\ script \in scripts
    /\ script_active = (Len(script) > 0)
    /\ live_mode = ~(Len(script) > 0)
    /\ tas_csv = TasFile(Len(script) > 0,
                         [i \in 1..Len(script) |->
                            Row(script[i].frame, script[i].buttons,
                                script[i].stick_lx, script[i].stick_ly, 0)])

Init == InitWith(ScriptChoices)

InitInput == InitWith(InputScripts)

InitLogger == InitWith({<<>>})

InitMode == InitWith({<<>>})

\* tas::init run on tas.csv as found: load_script, then script or live mode
InitTas ==
    /\ InitHooks
    /\ tas_csv \in TasFiles
    /\ script = load_script(tas_csv).script
    /\ script_active = load_script(tas_csv).ok
    /\ live_mode = ~load_script(tas_csv).ok

\* --------------------------------------------------------------- actions
\* procFrame_ trampoline: s_cb(s_frame) = on_frame, then s_frame++.
\* The log and status channels: states.csv is writable, status.bin may fail.
procFrame_step(phase, statusOk) ==
    /\ LET frame == CallbackArg(s_frame) IN
         \* state_logger::per_frame
         /\ state_log' = IF frame % FLUSH_PERIOD = 0
                         THEN LogFlush(state_log, TRUE) ELSE state_log
         \* game_phase::per_frame
         /\ s_last_phase' = game_phase_per_frame(phase)
         /\ s_mode' = phase_mode(s_mode, phase)
         \* status::update
         /\ status_bin' = update(frame, statusOk, "tick")
    /\ s_frame' = Inc32(s_frame)
    /\ UNCHANGED <<s_player, tracked_player, n_events, fresh, replay, observed>>
    /\ UNCHANGED tasVars

\* the step while s_frame is within the frames of a run
procFrame_(phase, statusOk) ==
    /\ s_frame <= MaxFrame
    /\ procFrame_step(phase, statusOk)

ProcFrame ==
    \E phase \in Phases, statusOk \in BOOLEAN :
         /\ procFrame_(phase, statusOk)
         /\ UNCHANGED <<logVars, rowVars, courseVars, snapVars, inputVars, padVars>>

\* the same step, with the rest of the block and the callback and publish
\* histories recorded
SnapProcFrame ==
    \E phase \in Phases, statusOk \in BOOLEAN, st \in PlayerStateReads :
         /\ procFrame_(phase, statusOk)
         /\ status_ext' = IF statusOk THEN StatusExt(phase, st) ELSE status_ext
         /\ cb' = [arg |-> CallbackArg(s_frame), current |-> current]
         /\ pubs' = [prev |-> pubs.last, last |-> CallbackArg(s_frame)]
         /\ dropped' = IF statusOk THEN dropped ELSE CallbackArg(s_frame)
         /\ UNCHANGED <<logVars, rowVars, courseVars, seen, inputVars, padVars>>

\* the same step, with the player fields of the block recorded; cur_state
\* holds the state the last changeState set
ModeProcFrame ==
    \E phase \in Phases, statusOk \in BOOLEAN :
         /\ procFrame_(phase, statusOk)
         /\ status_ext' = IF statusOk THEN StatusExt(phase, observed.new)
                          ELSE status_ext
         /\ UNCHANGED <<logVars, rowVars, courseVars, cb, pubs, dropped, seen,
                        inputVars, padVars>>

\* the same step in a long run with status.bin writable; an empty buffer
\* has no row waiting
CadenceProcFrame ==
    \E phase \in Phases :
         /\ s_frame <= MaxCadenceFrame
         /\ procFrame_step(phase, TRUE)
         /\ pending' = IF state_log'.pos = 0 THEN -1 ELSE pending
         /\ UNCHANGED <<logVars, last_row, courseVars, snapVars, inputVars,
                        padVars>>

\* the same step, closing the counts of status writes and of live polls of
\* the frame
TasProcFrame ==
    \E phase \in Phases, statusOk \in BOOLEAN :
         /\ procFrame_(phase, statusOk)
         /\ done_publishes' = tick_publishes + 1
         /\ tick_publishes' = 0
         /\ done_live' = tick_live
         /\ tick_live' = 0
         /\ UNCHANGED <<logVars, rowVars, courseVars, polled_frame, snapVars, tas_csv, pad_real, pad_out,
                        live_polled, last_poll>>

\* the same step, closing the count of status writes of the frame
InputProcFrame ==
    \E phase \in Phases, statusOk \in BOOLEAN :
         /\ procFrame_(phase, statusOk)
         /\ done_publishes' = tick_publishes + 1
         /\ tick_publishes' = 0
         /\ pubs' = [prev |-> pubs.last, last |-> CallbackArg(s_frame)]
         /\ UNCHANGED <<logVars, rowVars, courseVars, polled_frame, status_ext, cb, dropped, seen, padVars>>

\* playerChangeState_hook (state_logger.cpp), with the s_player capture of
\* the hook of the same symbol in status.cpp
playerChangeState_step(player, old_state, new_state, len) ==
    /\ state_log' = LogWrite(state_log, len, TRUE)
    /\ tracked_player' = set_player(tracked_player, player)
    /\ s_player' = set_player(s_player, player)
    /\ s_mode' = Classify(s_mode, old_state, new_state)
    /\ fresh' = Classify(fresh, old_state, new_state)
    /\ n_events' = n_events + 1
    /\ UNCHANGED <<s_frame, s_last_phase, status_bin>>
    /\ UNCHANGED tasVars

\* the hook within the frames and the transitions of a run
playerChangeState_hook(player, old_state, new_state, len) ==
    /\ n_events < MaxEvents
    /\ s_frame <= MaxFrame
    /\ playerChangeState_step(player, old_state, new_state, len)

PlayerChangeState ==
    \E player \in PlayerRefs, old_state \in StateIds, new_state \in StateIds,
       len \in StateRecLens :
         /\ playerChangeState_hook(player, old_state, new_state, len)
         /\ UNCHANGED <<logVars, rowVars, courseVars, observed, replay, snapVars, inputVars, padVars>>

\* the same hook, with the transition and the Mode before it recorded
ObservedChangeState ==
    \E player \in PlayerRefs, old_state \in StateIds, new_state \in StateIds,
       len \in StateRecLens :
         /\ playerChangeState_hook(player, old_state, new_state, len)
         /\ observed' = [old |-> old_state, new |-> new_state,
                         before |-> s_mode, seen |-> TRUE]
         /\ UNCHANGED <<logVars, rowVars, courseVars, replay, snapVars, inputVars, padVars>>

\* the same hook, with the transition replayed on the classifiers of the
\* frames it is stamped for: frame::current() and every later frame
StampedChangeState ==
    \E player \in PlayerRefs, old_state \in StateIds, new_state \in StateIds,
       len \in StateRecLens :
         /\ playerChangeState_hook(player, old_state, new_state, len)
         /\ replay' = [n \in 0..MaxFrame |->
                         IF n >= s_frame
                         THEN Classify(replay[n], old_state, new_state)
                         ELSE replay[n]]
         /\ UNCHANGED <<logVars, rowVars, courseVars, observed, snapVars, inputVars, padVars>>

\* the same hook, with the reference, the stamp and the editor rule recorded
SnapChangeState ==
    \E player \in PlayerRefs, old_state \in StateIds, new_state \in StateIds,
       len \in StateRecLens :
         /\ n_events < MaxSeen
         /\ playerChangeState_hook(player, old_state, new_state, len)
         /\ seen' = [ref |-> player, prev |-> s_player, frame |-> current,
                     editing |-> EntersEditing(old_state, new_state)]
         /\ UNCHANGED <<logVars, rowVars, courseVars, observed, replay, status_ext, cb, pubs, dropped,
                        inputVars, padVars>>

\* the same hook, with the transition, the Mode before it, the reference,
\* the stamp and the row written to states.csv recorded
ModeChangeState ==
    \E player \in PlayerRefs, old_state \in ModeStates, new_state \in ModeStates,
       len \in StateRecLens :
         /\ n_events < MaxSeen
         /\ playerChangeState_hook(player, old_state, new_state, len)
         /\ observed' = [old |-> old_state, new |-> new_state,
                         before |-> s_mode, seen |-> TRUE]
         /\ seen' = [ref |-> player, prev |-> s_player, frame |-> s_frame,
                     editing |-> EntersEditing(old_state, new_state)]
         /\ last_row' = StateRow(current, old_state, new_state, player)
         /\ UNCHANGED <<logVars, pending, courseVars, replay, status_ext, cb,
                        pubs, dropped, inputVars, padVars>>

\* the same hook in a long run, with the stamp of the transition and of the
\* oldest row still in the buffer recorded
CadenceChangeState ==
    \E len \in StateRecLens :
         /\ n_events < MaxSeen
         /\ s_frame \in CadenceEventFrames
         /\ playerChangeState_step(1, Walk, Walk, len)
         /\ seen' = [ref |-> 1, prev |-> s_player, frame |-> s_frame,
                     editing |-> FALSE]
         /\ pending' = IF pending = -1 THEN s_frame ELSE pending
         /\ UNCHANGED <<logVars, last_row, courseVars, observed, replay,
                        status_ext, cb, pubs, dropped, inputVars, padVars>>

\* npad_fullkey_hook: orig, update_input (inject_buttons edits the host's
\* buffer only)
npad_fullkey_hook(rd, statusOk) ==
    /\ LET f == current
             adv == IF script_active /\ Len(script) > 0
                    THEN AdvanceScript(script_idx, cur, f)
                    ELSE [idx |-> script_idx, cur |-> cur]
             act == IF script_active /\ Len(script) > 0
                       /\ script_finished(adv.idx, adv.cur.buttons)
                    THEN FALSE ELSE script_active
             c2 == IF live_poll_due(f) /\ rd.ok
                   THEN rd.inp ELSE adv.cur
         IN /\ s_input_poll_count' = Inc32(s_input_poll_count)
            /\ status_bin' = update_from_input_poll(statusOk)
            /\ script_idx' = adv.idx
            /\ script_active' = act
            /\ cur' = c2
    /\ UNCHANGED <<s_frame, s_mode, s_player, tracked_player, s_last_phase,
                   state_log, script, live_mode, n_events, fresh, replay, observed>>

NpadStates ==
    /\ s_input_poll_count < MaxPolls
    /\ \E rd \in LiveReads, statusOk \in BOOLEAN :
         /\ npad_fullkey_hook(rd, statusOk)
         /\ UNCHANGED <<logVars, rowVars, courseVars, snapVars, inputVars, padVars>>

\* the same hook reading input.bin as found, with the entry handed back to
\* the host (inject_buttons on the entry orig returned) and the poll recorded
TasNpadStates ==
    /\ s_input_poll_count < MaxTasPolls
    /\ \E file \in LiveFiles, real \in RealPads, statusOk \in BOOLEAN :
         /\ npad_fullkey_hook(read_live_input(file), statusOk)
         /\ pad_real' = real
         /\ pad_out' = inject_buttons(real, cur')
         /\ tick_publishes' = tick_publishes + 1
         /\ polled_frame' = current
         /\ tick_live' = IF live_poll_due(current) THEN tick_live + 1
                         ELSE tick_live
         /\ live_polled' = (live_polled \/ live_poll_due(current))
         /\ last_poll' = [made |-> live_poll_due(current), file |-> file,
                          before |-> cur]
         /\ UNCHANGED <<logVars, rowVars, courseVars, done_publishes, done_live, snapVars, tas_csv>>

\* the same hook, with the status write it attempts counted and the frame of
\* its block and the frame it resolved the input for recorded
InputNpadStates ==
    /\ s_input_poll_count < MaxScriptPolls
    /\ \E rd \in LiveReads, statusOk \in BOOLEAN :
         /\ npad_fullkey_hook(rd, statusOk)
         /\ tick_publishes' = tick_publishes + 1
         /\ pubs' = [prev |-> pubs.last,
                     last |-> update_from_input_poll(TRUE).frame]
         /\ polled_frame' = current
         /\ UNCHANGED <<logVars, rowVars, courseVars, done_publishes, status_ext, cb, dropped, seen, padVars>>

Next == ProcFrame \/ PlayerChangeState \/ NpadStates

Spec == Init /\ [][Next]_vars

\* the classifier driven by transitions alone, each one recorded
NextObserved == ObservedChangeState

SpecObserved == Init /\ [][NextObserved]_vars

\* simulation steps and transitions, each transition replayed per frame
NextStamped == ProcFrame \/ StampedChangeState

SpecStamped == Init /\ [][NextStamped]_vars

\* simulation steps and transitions, the whole status block recorded
NextSnapshot == SnapProcFrame \/ SnapChangeState

SpecSnapshot == Init /\ [][NextSnapshot]_vars

\* simulation steps and input reads over the longer scripts
NextInput == InputProcFrame \/ InputNpadStates

SpecInput == InitInput /\ [][NextInput]_vars

\* simulation steps and input reads from tas.csv and input.bin as found
\* the ids of the records in buffer[0, pos)
Buffered == {logger.buffer[i].id : i \in DOMAIN logger.buffer}

\* whether the flush at the head of write(len) runs its OpenFile
FlushesFirst(len) == logger.pos > 0 /\ logger.pos + len >= BUFFER_SIZE

\* the records a write of rec loses: the buffered ones if the OpenFile of
\* its flush fails, rec itself if the one of the direct path does
LostByWrite(rec, flushOk, openOk) ==
    (IF FlushesFirst(rec.len) /\ ~flushOk THEN Buffered ELSE {})
    \cup (IF rec.len >= BUFFER_SIZE /\ ~openOk THEN {rec.id} ELSE {})

\* a caller of Logger::write on the stream, with the records handed in and
\* the ones whose OpenFile failed
LoggerWrite ==
    /\ Len(appended) < MaxAppends
    /\ \E len \in RecordLens, flushOk \in BOOLEAN, openOk \in BOOLEAN :
         LET rec == Rec(Len(appended) + 1, len) IN
            /\ logger' = write(logger, rec, flushOk, openOk)
            /\ appended' = Append(appended, rec)
            /\ lost' = lost \cup LostByWrite(rec, flushOk, openOk)
            /\ last_op' = [op |-> "write", before |-> logger, len |-> len,
                           flushOk |-> flushOk, openOk |-> openOk]
    /\ UNCHANGED <<hookVars, rowVars, courseVars>>

\* a caller of Logger::writef on the stream
LoggerWritef ==
    /\ Len(appended) < MaxAppends
    /\ \E n \in FormattedLens, flushOk \in BOOLEAN, openOk \in BOOLEAN :
         LET rec == Rec(Len(appended) + 1, n) IN
            /\ logger' = writef(logger, rec.id, n, flushOk, openOk)
            /\ appended' = IF n > 0 THEN Append(appended, rec) ELSE appended
            /\ lost' = IF n > 0 THEN lost \cup LostByWrite(rec, flushOk, openOk)
                       ELSE lost
            /\ last_op' = [op |-> "writef", before |-> logger, len |-> n,
                           flushOk |-> flushOk, openOk |-> openOk]
    /\ UNCHANGED <<hookVars, rowVars, courseVars>>

\* a caller of Logger::flush on the stream
LoggerFlush ==
    /\ \E openOk \in BOOLEAN :
         /\ logger' = flush(logger, openOk)
         /\ lost' = lost \cup (IF logger.pos > 0 /\ ~openOk THEN Buffered ELSE {})
         /\ last_op' = [op |-> "flush", before |-> logger, len |-> logger.pos,
                        flushOk |-> openOk, openOk |-> openOk]
    /\ UNCHANGED appended
    /\ UNCHANGED <<hookVars, rowVars, courseVars>>

NextTas == TasProcFrame \/ TasNpadStates

SpecTas == InitTas /\ [][NextTas]_vars

\* simulation steps and transitions, with the last transition and its row
\* recorded
NextMode == ModeProcFrame \/ ModeChangeState

SpecMode == InitMode /\ [][NextMode]_vars

\* course_data::init installs one of the two write_hook definitions
CourseDataInit ==
    /\ course_data.build = 0
    /\ \E build \in {FILTERED, COUNTED} :
         course_data' = [course_data EXCEPT !.build = build]
    /\ UNCHANGED <<hookVars, logVars, rowVars, in_flight>>

\* the game, or the flush of another stream, calls nn::fs::WriteFile and
\* enters write_hook
HostWriteFile ==
    /\ course_data.build # 0
    /\ in_flight = <<>>
    /\ Len(appended) < MaxAppends
    /\ \E size \in HostSizes :
         in_flight' = <<Call("host", 0, <<>>, size, "hook")>>
    /\ UNCHANGED <<hookVars, logVars, rowVars, course_data>>

\* write_hook from its start: either it logs a row and its s_log.flush()
\* opens the file and calls nn::fs::WriteFile, which enters write_hook
\* again, or it reaches write_hook.orig
HookLog ==
    /\ in_flight # <<>>
    /\ LET top == in_flight[Len(in_flight)]
           id == IF course_data.s_inited THEN Len(appended) + 1 ELSE 2
           l1 == hook_append(course_data, logger, top.size, id)
           rest == SubSeq(in_flight, 1, Len(in_flight) - 1)
           had == IF course_data.s_inited THEN Len(logger.buffer) ELSE 0
       IN /\ top.pc = "hook"
          /\ IF hook_logs(course_data, top.size)
             THEN /\ appended' = (IF course_data.s_inited THEN appended ELSE <<>>)
                                   \o SubSeq(l1.buffer, had + 1, Len(l1.buffer))
                  /\ course_data' = [course_data EXCEPT
                         !.s_inited = TRUE,
                         !.s_count = IF course_data.build = COUNTED
                                     THEN @ + 1 ELSE @]
                  /\ \E openOk \in BOOLEAN :
                       IF l1.pos > 0 /\ openOk
                       THEN /\ logger' = [l1 EXCEPT !.file =
                                   SetFileSize(@, l1.file_pos + l1.pos)]
                            /\ in_flight' =
                                  Append(rest, [top EXCEPT !.pc = "flush"])
                                  \o <<Call("s_log", l1.file_pos, l1.buffer,
                                            l1.pos, "hook")>>
                            /\ UNCHANGED lost
                       ELSE /\ logger' = flush(l1, FALSE)
                            /\ in_flight' = Append(rest, [top EXCEPT !.pc = "orig"])
                            /\ lost' = lost \cup
                                   {l1.buffer[i].id : i \in DOMAIN l1.buffer}
             ELSE /\ in_flight' = Append(rest, [top EXCEPT !.pc = "orig"])
                  /\ UNCHANGED <<logger, appended, lost, course_data>>
    /\ UNCHANGED <<hookVars, rowVars, last_op>>

\* write_hook.orig writes and returns; a write of s_log returns into the
\* Logger::flush that issued it, which advances file_pos and resets pos
OrigReturn ==
    /\ in_flight # <<>>
    /\ LET top == in_flight[Len(in_flight)]
           rest == SubSeq(in_flight, 1, Len(in_flight) - 1)
       IN /\ top.pc = "orig"
          /\ IF top.who = "s_log"
             THEN /\ logger' = [logger EXCEPT
                         !.file = WriteAt(@, top.off, top.data),
                         !.file_pos = @ + logger.pos,
                         !.pos = 0,
                         !.buffer = <<>>]
                  /\ in_flight' = Append(SubSeq(rest, 1, Len(rest) - 1),
                                         [rest[Len(rest)] EXCEPT !.pc = "orig"])
             ELSE /\ in_flight' = rest
                  /\ UNCHANGED logger
    /\ UNCHANGED <<hookVars, rowVars, appended, lost, last_op, course_data>>

\* nn::fs::WriteFile calls with write_hook installed
NextReentry == CourseDataInit \/ HostWriteFile \/ HookLog \/ OrigReturn

SpecReentry == InitMode /\ [][NextReentry]_vars

\* simulation steps past the first flush period, with a few transitions
NextCadence == CadenceProcFrame \/ CadenceChangeState

SpecCadence == InitMode /\ [][NextCadence]_vars

\* one stream under any sequence of writes and flushes
NextLogger == LoggerWrite \/ LoggerWritef \/ LoggerFlush

SpecLogger == InitLogger /\ [][NextLogger]_vars

\* ================================================================ claims

\* C1: the snapshot the per-frame callback published for frame N carries the
\* Mode obtained by applying, in order, every transition stamped <= N, and it
\* stays so: no transition stamped <= N reaches the classifier afterwards.
C1_SnapshotReflectsEvents ==
    status_bin.src = "tick" =>
        /\ status_bin.frame \in 0..MaxFrame
        /\ status_bin.game_phase = replay[status_bin.frame]

\* C1 scenario: Playing at frame 0, GoalSequence at frame 1, back to Editing
\* at frame 2, and the snapshot of frame 2 says Editing.
C1_Scenario ==
    /\ status_bin.src = "tick"
    /\ status_bin.frame = 2
    /\ status_bin.game_phase = MODE_EDITOR
    /\ replay[0] = MODE_PLAYING
    /\ replay[1] = MODE_GOAL
    /\ replay[2] = MODE_EDITOR

\* C2: after a transition out of state 16 into a state that is neither 122
\* nor 9 the Mode is Playing, whatever it was before.
C2_ResetGivesPlaying ==
    (observed.seen /\ observed.old = StartFall
       /\ observed.new \notin {GoalPole, Damage}) => s_mode = MODE_PLAYING

\* a 16 -> Walk transition observed while the Mode was GoalSequence
C2_ResetSeenInGoal ==
    /\ observed.seen
    /\ observed.old = StartFall
    /\ observed.new = Walk
    /\ observed.before = MODE_GOAL
    /\ s_mode = MODE_PLAYING

\* C3: after a transition into state 122 the Mode is GoalSequence, for every
\* old state and every Mode before.
C3_GoalGivesGoalSequence ==
    (observed.seen /\ observed.new = GoalPole) => s_mode = MODE_GOAL

\* a Walk -> 122 transition observed while Playing
C3_GoalSeenWhilePlaying ==
    /\ observed.seen
    /\ observed.old = Walk
    /\ observed.new = GoalPole
    /\ observed.before = MODE_PLAYING
    /\ s_mode = MODE_GOAL

\* C4: after a transition into state 9 the Mode is DeathSequence, for every
\* old state and every Mode before.
C4_DeathGivesDeathSequence ==
    (observed.seen /\ observed.new = Damage) => s_mode = MODE_DEAD

\* a 122 -> 9 transition observed in GoalSequence
C4_DeathSeenInGoal ==
    /\ observed.seen
    /\ observed.old = GoalPole
    /\ observed.new = Damage
    /\ observed.before = MODE_GOAL
    /\ s_mode = MODE_DEAD

\* C5: after a transition from 124 or 10 into 43 the Mode is Editing,
\* whatever it was before.
C5_TerminalToIdleGivesEditing ==
    (observed.seen /\ observed.old \in {GoalBackJump, DamageEnd}
       /\ observed.new = SwimIdle) => s_mode = MODE_EDITOR

\* a 10 -> 43 transition observed in DeathSequence
C5_IdleSeenAfterDeath ==
    /\ observed.seen
    /\ observed.old = DamageEnd
    /\ observed.new = SwimIdle
    /\ observed.before = MODE_DEAD
    /\ s_mode = MODE_EDITOR

\* C6: a transition that matches the reset rule and the goal (death) rule at
\* once yields GoalSequence (DeathSequence), never Playing.
C6_GoalDeathBeatReset ==
    (observed.seen /\ observed.old = StartFall) =>
        /\ (observed.new = GoalPole => s_mode = MODE_GOAL)
        /\ (observed.new = Damage => s_mode = MODE_DEAD)
        /\ (observed.new \in {GoalPole, Damage} => s_mode # MODE_PLAYING)

\* a 16 -> 122 transition observed while the Mode was Playing
C6_ResetAndGoalSeen ==
    /\ observed.seen
    /\ observed.old = StartFall
    /\ observed.new = GoalPole
    /\ observed.before = MODE_PLAYING
    /\ s_mode = MODE_GOAL

\* C7: a frame step, in which the phase is read and no transition occurs,
\* leaves the Mode as it was, whatever the phase read and whether or not it
\* differs from the phase of the frame before.
C7_PhaseNeverForcesMode ==
    [][(s_frame' # s_frame) => (s_mode' = s_mode)]_vars

\* the editor phase was read in a frame published with Mode GoalSequence
C7_EditorPhaseReadInGoal ==
    /\ s_last_phase = PHASE_EDITOR
    /\ status_bin.src = "tick"
    /\ status_bin.frame + 1 = s_frame
    /\ status_bin.game_phase = MODE_GOAL
    /\ s_mode = MODE_GOAL

\* C8: the Mode is the Mode a fresh classifier reaches on the ordered
\* (old,new) pairs alone: frames, player references, phase reads and input
\* polls in between do not matter.
C8_ModeIsFunctionOfPairs ==
    s_mode = fresh

\* three transitions in different frames, by now Editing again, with a phase
\* read and an input poll in between
C8_InterleavedRun ==
    /\ n_events = 3
    /\ s_frame = 2
    /\ status_bin.src = "tick"
    /\ status_bin.game_phase = MODE_DEAD
    /\ s_mode = MODE_EDITOR
    /\ s_last_phase = PHASE_EDITOR
    /\ s_input_poll_count >= 1
    /\ tracked_player = 2

\* C9: a snapshot published after a goal/death-terminal return to Editing
\* carries a mode value other than the one published before any
\* classification (Unknown and Editing are distinct values).
C9_UnknownDistinctFromEditing ==
    (/\ status_bin.src = "tick"
     /\ status_bin.frame \in 1..MaxFrame
     /\ replay[status_bin.frame - 1] \in {MODE_GOAL, MODE_DEAD}
     /\ replay[status_bin.frame] = MODE_EDITOR)
    => status_bin.game_phase # MODE_UNKNOWN

\* C10: every intercepted simulation step adds exactly 1 to the frame counter
\* and no other step changes it.
C10_TickCounter ==
    [][/\ ProcFrame => s_frame' = s_frame + 1
       /\ ~ProcFrame => s_frame' = s_frame]_vars

\* the counter after MaxFrame + 1 steps, with transitions and polls between
C10_CountedFrames ==
    /\ s_frame = MaxFrame + 1
    /\ n_events >= 1
    /\ s_input_poll_count >= 1

\* C11: in every intercepted simulation step the frame counter is incremented
\* before the callback runs: the callback's argument is the counter's value
\* after the step, and frame::current() inside the callback equals it.
C11_CallbackGetsNewFrame ==
    cb.arg >= 0 => (cb.arg = s_frame /\ cb.current = cb.arg)

\* C12: of two consecutive publish calls the later one carries the earlier
\* one's frame plus exactly 1, whether or not either of them wrote.
C12_PublishFrameByOne ==
    pubs.prev >= 0 => pubs.last = pubs.prev + 1

\* C13: a block on file with has_player = 0 has every player field zero.
C13_NoPlayerMeansZeroFields ==
    status_bin.has_player = 0 => status_ext.player = NoPlayerFields

\* the block of frame 1 written with no player captured yet
C13_BlockWithoutPlayer ==
    /\ status_bin.src = "tick"
    /\ status_bin.frame = 1
    /\ status_bin.has_player = 0
    /\ status_ext.real_game_phase = PHASE_EDITOR
    /\ status_ext.player.player_state = 0
    /\ dropped # 1

\* C14: in every frame exactly one write of the status block is attempted,
\* also in a frame in which GetNpadStates is intercepted.
C14_OnePublishPerFrame ==
    s_frame > 0 => done_publishes = 1

\* C15: a simulation step whose status write fails leaves the file as it was
\* and the Mode and the tracked player alone, and advances the counter by 1;
\* a step whose write succeeds puts the block of that very frame on file.
C15_FailedWriteDropsBlock ==
    [][(s_frame' # s_frame) =>
         /\ s_frame' = s_frame + 1
         /\ s_mode' = s_mode
         /\ s_player' = s_player
         /\ tracked_player' = tracked_player
         /\ IF dropped' = s_frame
            THEN status_bin' = status_bin /\ status_ext' = status_ext
            ELSE /\ status_bin'.frame = s_frame
                 /\ status_bin'.game_phase = s_mode
                 /\ status_bin'.has_player = (IF s_player # 0 THEN 1 ELSE 0)
                 /\ status_ext'.player.ref = s_player]_vars

\* the write of frame 1 failed with a player tracked, the write of frame 2
\* succeeded after the return to Editing
C15_WriteAfterDroppedFrame ==
    /\ dropped = 1
    /\ pubs.last = 2
    /\ status_bin.frame = 2
    /\ status_bin.game_phase = MODE_EDITOR
    /\ status_bin.has_player = 1
    /\ seen.editing
    /\ seen.frame = 2
    /\ seen.prev # 0

\* C16: a block on file has has_player = 1 only if the phase read in its frame
\* is 3 or 4.
C16_PlayerOnlyInSubjectPhase ==
    status_bin.has_player = 1 =>
        status_ext.real_game_phase \in {PHASE_EDITOR, PHASE_COURSEBOT}

\* C17: a block published more than STALE_WINDOW frames after the last
\* transition has has_player = 0.
C17_StaleAfterWindow ==
    (/\ status_bin.src = "tick"
     /\ seen.frame >= 0
     /\ status_bin.frame > seen.frame + STALE_WINDOW)
    => status_bin.has_player = 0

\* C18: a block published after the transition that entered Editing, and
\* before any further transition, has has_player = 0 and zero player fields.
C18_EditingClearsPlayer ==
    (/\ seen.editing
     /\ status_bin.src = "tick"
     /\ status_bin.frame >= seen.frame)
    => /\ status_bin.has_player = 0
       /\ status_ext.player = NoPlayerFields

\* C19: after a transition carrying reference r the tracked reference is r,
\* and a block published after it has its player fields read through r.
C19_LastReferenceTracked ==
    seen.frame >= 0 =>
        /\ s_player = seen.ref
        /\ tracked_player = seen.ref
        /\ (status_bin.src = "tick" /\ status_bin.frame >= seen.frame)
              => (status_bin.has_player = 1 /\ status_ext.player.ref = seen.ref)

\* reference 2 replaced reference 1 in frame 1 and the block of frame 1 was
\* read through 2
C19_ReferenceReplaced ==
    /\ seen.prev = 1
    /\ seen.ref = 2
    /\ seen.frame = 1
    /\ status_bin.src = "tick"
    /\ status_bin.frame = 1
    /\ status_ext.player.ref = 2
    /\ status_ext.player.player_state = Walk

\* the values of the keyframe with the greatest frame <= t, zero if none
HeldInput(t) ==
    LET K == {i \in 1..Len(script) : script[i].frame <= t} IN
    IF K = {} THEN LiveInput(0, 0, 0)
    ELSE LET i == CHOOSE k \in K : \A j \in K : script[j].frame <= script[k].frame
         IN LiveInput(script[i].buttons, script[i].stick_lx, script[i].stick_ly)

\* C20: with a script of strictly increasing keyframe frames, the synthetic
\* input after an update in frame t is that of the keyframe with the greatest
\* frame <= t, and zero if there is none.
C20_SampleAndHold ==
    polled_frame >= 0 => cur = HeldInput(polled_frame)

\* the three-keyframe script updated in frames 0, 1 and 2: the third keyframe
\* is held
C20_ThirdKeyframeHeld ==
    /\ Len(script) = 3
    /\ s_input_poll_count = 3
    /\ polled_frame = 2
    /\ s_frame = 2
    /\ done_publishes = 2
    /\ tick_publishes = 1
    /\ script_idx = 3
    /\ cur = LiveInput(5, 0, 0)

\* bit i of a buttons mask
Bit(mask, i) == (mask \div (2 ^ i)) % 2

\* C21: in script mode playback is over exactly from the first update on at
\* which every keyframe is consumed and the buttons last applied are 0; with
\* the last keyframe's buttons nonzero it never ends and those buttons are
\* set in every entry handed back afterwards.
C21_PlaybackEnds ==
    ~live_mode =>
        /\ script_active <=>
              ~(polled_frame >= 0 /\ script_idx >= Len(script)
                  /\ cur.buttons = 0)
        /\ (polled_frame >= 0 /\ script_idx >= Len(script)
              /\ script[Len(script)].buttons # 0)
           => /\ script_active
              /\ \A i \in 0..14 :
                   Bit(script[Len(script)].buttons, i) = 1
                      => Bit(pad_out.buttons, i) = 1

\* the three-row script: still active after the update of frame 0 that left
\* buttons 0 with a keyframe to go, inactive after the update of frame 2
C21_EndedAtLastKeyframe ==
    /\ Len(script) = 3
    /\ s_input_poll_count = 2
    /\ polled_frame = 2
    /\ script_idx = 3
    /\ cur = LiveInput(0, 0, 7)
    /\ ~script_active
    /\ last_poll.before = LiveInput(0, 0, 0)

\* C22: the cursor starts at 0, never decreases, stays within
\* 0..script_len <= MAX_KEYFRAMES, and the loaded script is never modified.
C22_CursorMonotone ==
    /\ script_idx = 0
    /\ [](script_idx \in 0..Len(script) /\ Len(script) <= MAX_KEYFRAMES)
    /\ [][script_idx' >= script_idx /\ script' = script]_vars

\* the cursor of the two-row script after both keyframes were consumed in
\* separate updates
C22_CursorAtEnd ==
    /\ Len(script) = 2
    /\ script_idx = 2
    /\ s_input_poll_count = 3
    /\ polled_frame = 3
    /\ last_poll.before = LiveInput(5, 0, 0)
    /\ script_active

\* C23 as stated: a live poll that cannot open the source or reads fewer than
\* 16 bytes leaves buttons and both axes as they were.
C23_ShortReadKeepsInput ==
    (/\ last_poll.made
     /\ ~last_poll.file.opened \/ last_poll.file.bytes_read < LIVE_SAMPLE_LEN)
    => cur = last_poll.before

\* C23 amended: a live poll that cannot open the source or reads fewer than
\* 8 bytes leaves buttons and both axes as they were; a read of 8 to 15
\* bytes replaces the buttons and sets both axes to 0.
C23_FailedReadKeepsInput ==
    last_poll.made =>
        /\ (~last_poll.file.opened \/ last_poll.file.bytes_read < LIVE_BUTTONS_LEN)
              => cur = last_poll.before
        /\ (/\ last_poll.file.opened
            /\ last_poll.file.bytes_read >= LIVE_BUTTONS_LEN
            /\ last_poll.file.bytes_read < LIVE_SAMPLE_LEN)
              => cur = LiveInput(last_poll.file.buttons, 0, 0)

\* a 4-byte read after a full sample: the sample is kept
C23_SampleKeptAfterShortRead ==
    /\ last_poll.made
    /\ last_poll.file.opened
    /\ last_poll.file.bytes_read = 4
    /\ last_poll.before = LiveInput(2, 0, 5)
    /\ cur = LiveInput(2, 0, 5)

\* C24: in live mode a frame in which the input is read has exactly one poll
\* of the source if its number is a multiple of 2 and none otherwise.
C24_OnePollPerEvenFrame ==
    (live_mode /\ s_frame > 0 /\ done_publishes >= 2) =>
        done_live = (IF (s_frame - 1) % LIVE_PERIOD = 0 THEN 1 ELSE 0)

\* C25: in the entry handed back to the host the buttons are the real buttons
\* OR the synthetic ones, and each stick axis is the synthetic value if that
\* is nonzero and the real value otherwise.
C25_MergePolicy ==
    polled_frame >= 0 =>
        /\ \A i \in 0..14 :
             Bit(pad_out.buttons, i) = 1
                <=> (Bit(pad_real.buttons, i) = 1 \/ Bit(cur.buttons, i) = 1)
        /\ pad_out.sl_x = (IF cur.stick_lx # 0 THEN cur.stick_lx ELSE pad_real.sl_x)
        /\ pad_out.sl_y = (IF cur.stick_ly # 0 THEN cur.stick_ly ELSE pad_real.sl_y)

\* live mode: real buttons 0x01 and axis 500, synthetic buttons 0x4000 and
\* axis 0 give buttons 0x4001 and axis 500
C25_LiveMergeExample ==
    /\ live_mode
    /\ polled_frame >= 0
    /\ pad_real = RealPad(1, 500, 0)
    /\ cur = LiveInput(16384, 0, 0)
    /\ pad_out = RealPad(16385, 500, 0)

\* C26: script playback and live mode are never both active, and the live
\* source is only ever polled by a process that started in live mode.
C26_ModesExclusive ==
    /\ ~(script_active /\ live_mode)
    /\ live_polled => live_mode
    /\ live_mode <=> ~load_script(tas_csv).ok

\* playback has ended, an update ran in the even frame 2 and no poll of the
\* live source was ever made
C26_NoPollAfterPlayback ==
    /\ ~live_mode
    /\ ~script_active
    /\ polled_frame = 2
    /\ s_input_poll_count = MaxTasPolls
    /\ ~last_poll.made
    /\ ~live_polled

\* C27: live mode is enabled exactly when tas.csv is absent; a file that
\* opens gives script mode whatever it contains.
C27_ModeByPresence ==
    live_mode <=> ~tas_csv.exists

\* the keyframes of the rows all of whose fields are numbers, in file order
WellFormedRows(rows) ==
    LET good == SelectSeq(rows, LAMBDA r : r.bad = 0) IN
    [i \in 1..Len(good) |->
        Keyframe(good[i].frame, good[i].buttons, good[i].stick_lx,
                 good[i].stick_ly)]

\* C28: the loaded script is exactly the well-formed rows in file order.
C28_MalformedRowsSkipped ==
    script = WellFormedRows(tas_csv.rows)

\* the appended records whose OpenFile failed, and the others
Lost == SelectSeq(appended, LAMBDA r : r.id \in lost)
Kept == SelectSeq(appended, LAMBDA r : r.id \notin lost)

\* C29 as stated: file_pos + pos is the number of bytes ever passed to
\* write, whether or not an OpenFile failed.
C29_OffsetPlusBufferIsTotal ==
    logger.file_pos + logger.pos = Bytes(appended)

\* C29 amended: file_pos + pos is the number of bytes ever passed to write
\* minus the bytes of the records whose OpenFile failed.
C29_OffsetPlusBufferIsKept ==
    logger.file_pos + logger.pos = Bytes(appended) - Bytes(Lost)

\* a short record lost by the failed flush in front of a direct write that
\* succeeded, and a record buffered afterwards
C29_LostBeforeDirectWrite ==
    /\ Len(appended) = 3
    /\ appended[2].len = 8192
    /\ lost = {1}
    /\ logger.file_pos = 8192
    /\ logger.pos = 100

\* C30 as stated: the file below file_pos followed by the buffer is the
\* sequence of all records ever passed to write.
C30_ContentIsAllAppended ==
    Below(logger.file, logger.file_pos) \o logger.buffer = appended

\* C30 amended: the file below file_pos followed by the buffer is the
\* sequence, in the order of the writes, of the records passed to write whose
\* OpenFile did not fail; the file holds nothing beyond file_pos.
C30_ContentIsKeptInOrder ==
    /\ Below(logger.file, logger.file_pos) \o logger.buffer = Kept
    /\ Bytes(logger.file) = logger.file_pos

\* flush-first on a full buffer, then a direct write, nothing lost
C30_FlushThenDirect ==
    /\ appended = <<Rec(1, 4096), Rec(2, 100), Rec(3, 8192)>>
    /\ lost = {}
    /\ logger.file = appended
    /\ logger.file_pos = 12388
    /\ logger.buffer = <<>>

\* C31: a flush that opens the file writes exactly the buffered records at
\* file_pos, advances file_pos by pos and empties the buffer; on an empty
\* buffer it changes nothing; a second flush changes nothing more.
C31_FlushIdempotent ==
    /\ last_op.op = "flush" =>
          LET b == last_op.before IN
          /\ b.pos = 0 => logger = b
          /\ (b.pos > 0 /\ last_op.openOk) =>
                /\ logger.file = Below(b.file, b.file_pos) \o b.buffer
                /\ logger.file_pos = b.file_pos + b.pos
                /\ logger.pos = 0
                /\ logger.buffer = <<>>
    /\ \A first \in BOOLEAN, second \in BOOLEAN :
          flush(flush(logger, first), second) = flush(logger, first)

\* a flush on the buffer a successful flush has just emptied
C31_SecondFlush ==
    /\ appended = <<Rec(1, 100)>>
    /\ lost = {}
    /\ last_op.op = "flush"
    /\ last_op.before.pos = 0
    /\ last_op.before.file_pos = 100
    /\ logger.file = appended

\* C32: when OpenFile fails in a flush or on the direct path of a write, the
\* bytes of that call are dropped: file_pos and the file stay as they were
\* and the buffer is empty; the next flush writes at the unchanged file_pos.
C32_FailedOpenDropsPayload ==
    LET b == last_op.before IN
    /\ (last_op.op = "flush" /\ b.pos > 0 /\ ~last_op.openOk) =>
          /\ logger.file_pos = b.file_pos
          /\ logger.file = b.file
          /\ logger.pos = 0
          /\ logger.buffer = <<>>
          /\ \A i \in DOMAIN b.buffer : b.buffer[i].id \in lost
    /\ (last_op.op = "write" /\ last_op.len >= BUFFER_SIZE /\ ~last_op.openOk) =>
          /\ logger.file_pos = b.file_pos + (IF last_op.flushOk THEN b.pos ELSE 0)
          /\ Bytes(logger.file) = logger.file_pos
          /\ logger.pos = 0
          /\ Len(appended) \in lost
    /\ (lost # {} /\ last_op.op = "flush" /\ b.pos > 0 /\ last_op.openOk) =>
          /\ logger.file = b.file \o b.buffer
          /\ logger.file_pos = b.file_pos + b.pos

\* a record lost by a failed flush, then a record buffered and flushed at
\* the offset the failed flush left
C32_FlushAfterFailedFlush ==
    /\ appended = <<Rec(1, 100), Rec(2, 4096)>>
    /\ lost = {1}
    /\ last_op.op = "flush"
    /\ last_op.openOk
    /\ last_op.before.file_pos = 0
    /\ logger.file = <<Rec(2, 4096)>>
    /\ logger.file_pos = 4096

\* C39: 0 <= pos < BUFFER_SIZE in every state, and every copy write makes
\* into the buffer lies within [0, BUFFER_SIZE).
C39_BufferBound ==
    /\ 0 <= logger.pos
    /\ logger.pos < BUFFER_SIZE
    /\ logger.pos = Bytes(logger.buffer)
    /\ (last_op.op \in {"write", "writef"} /\ 0 < last_op.len
          /\ last_op.len < BUFFER_SIZE) =>
          /\ 0 <= logger.pos - last_op.len
          /\ logger.pos <= BUFFER_SIZE - 1

\* half a buffer written on top of half a buffer: flushed first, then copied
\* to the start
C39_HalfOnHalf ==
    /\ appended = <<Rec(1, 4096), Rec(2, 4096)>>
    /\ last_op.op = "write"
    /\ last_op.before.pos = 4096
    /\ logger.pos = 4096
    /\ logger.file_pos = 4096

\* C40: a writef call hands write at most TMP_SIZE - 1 bytes, the most
\* vsnprintf can have put into tmp.
C40_WritefWithinTmp ==
    (last_op.op = "writef" /\ last_op.len > 0) =>
        /\ logger.buffer # <<>>
        /\ logger.buffer[Len(logger.buffer)].len <= TMP_SIZE - 1

\* C33: once script playback has ended, every entry handed back to the host
\* is the entry the original GetNpadStates returned, buttons and both axes.
C33_IdleAfterPlayback ==
    (~live_mode /\ Len(script) > 0 /\ ~script_active /\ polled_frame >= 0)
        => pad_out = pad_real

\* C35: every transition appends one record to states.csv, stamped with
\* frame::current() and carrying old_state and new_state, also when the
\* transition matches two classifier rules.
C35_OneRowPerTransition ==
    /\ \E len \in StateRecLens :
          state_log.file_pos + state_log.pos = STATE_HEADER_LEN + n_events * len
    /\ observed.seen =>
          last_row = [frame |-> seen.frame, old_state |-> observed.old,
                      new_state |-> observed.new, player |-> seen.ref]

\* a transition out of StartFall into GoalPole (reset rule and goal rule) in
\* frame 1, after the flush of frame 0
C35_AmbiguousRowLogged ==
    /\ observed.seen
    /\ observed.old = StartFall
    /\ observed.new = GoalPole
    /\ seen.frame = 1
    /\ last_row = [frame |-> 1, old_state |-> StartFall, new_state |-> GoalPole,
                   player |-> 2]
    /\ n_events = 2
    /\ state_log.file_pos = STATE_HEADER_LEN

\* no rule of the classifier matches the pair
NoRule(old_state, new_state) ==
    /\ old_state # StartFall
    /\ new_state \notin {GoalPole, Damage}
    /\ ~(old_state \in {GoalBackJump, DamageEnd} /\ new_state = SwimIdle)

\* C36: a transition that matches no rule leaves the Mode as it was, the
\* Mode is one of 0..3, and only the transition hook changes it.
C36_ModeOnlyByRules ==
    /\ [](s_mode \in 0..3)
    /\ []((observed.seen /\ NoRule(observed.old, observed.new))
              => s_mode = observed.before)
    /\ [][s_mode' # s_mode => n_events' = n_events + 1]_vars

\* Walk -> DamageEnd seen in GoalSequence, then a simulation step: still
\* GoalSequence
C36_UnmatchedPairKeepsGoal ==
    /\ observed.seen
    /\ observed.old = Walk
    /\ observed.new = DamageEnd
    /\ observed.before = MODE_GOAL
    /\ s_mode = MODE_GOAL
    /\ s_frame > seen.frame

\* C37: in a published block is_dead and is_goal are not both 1, is_dead = 1
\* comes with game_phase DeathSequence and is_goal = 1 with GoalSequence.
C37_FlagsAgreeWithMode ==
    (status_bin.src = "tick" /\ status_bin.has_player = 1) =>
        /\ ~(status_ext.player.is_dead = 1 /\ status_ext.player.is_goal = 1)
        /\ status_ext.player.is_dead = 1 => status_bin.game_phase = MODE_DEAD
        /\ status_ext.player.is_goal = 1 => status_bin.game_phase = MODE_GOAL

\* C34: a row written to states.csv is flushed by the callback of the next
\* frame divisible by FLUSH_PERIOD, at most FLUSH_PERIOD frames later.
C34_FlushedByNextPeriod ==
    pending >= 0 =>
        /\ IF pending % FLUSH_PERIOD = 0
           THEN s_frame = pending
           ELSE (s_frame - 1) \div FLUSH_PERIOD = pending \div FLUSH_PERIOD
        /\ s_frame - pending <= FLUSH_PERIOD

\* a row written in frame 1 and flushed by the callback of frame 300
C34_FlushedAtFrame300 ==
    /\ n_events = 1
    /\ seen.frame = 1
    /\ s_frame = 301
    /\ pending = -1
    /\ state_log.pos = 0
    /\ \E len \in StateRecLens : state_log.file_pos = STATE_HEADER_LEN + len

\* the WriteFile calls of s_log.flush() that have not returned
FlushesInFlight == SelectSeq(in_flight, LAMBDA c : c.who = "s_log")

\* C38: while a flush of s_log waits for its WriteFile, no other flush of
\* s_log is started and nothing is appended to s_log.
C38_FlushNotReentered ==
    /\ Len(FlushesInFlight) <= 1
    /\ FlushesInFlight # <<>> =>
          /\ logger.buffer = FlushesInFlight[1].data
          /\ logger.file_pos = FlushesInFlight[1].off

====
